---- MODULE Spec2Model ----
(***************************************************************************)
(* rustybutter-avatar: the avatar state store (src/src/index.ts), the RPC  *)
(* tool module (mcp-server.ts, src/unnamed/part_002) and the batch player  *)
(* of the display page (src/public/index.html).                            *)
(*                                                                         *)
(* Encodings.  Numbers are integers; scale is counted in tenths (1.0 is    *)
(* 10).  An optional argument is <<>> when absent and <<v>> when given.    *)
(* A query-string value is a sequence of one-character strings.  null      *)
(* batch / null id / null timer handle are NoBatch / 0 / 0.                *)
(***************************************************************************)
EXTENDS Integers, Sequences, FiniteSets, TLC

VARIABLES
  currentExpression,      \* index.ts: name of the current expression
  avatarState,            \* index.ts: direction, posX, posY, rotation, scale
  batchExpressionsState,  \* index.ts: the stored batch, or NoBatch
  mcpCurrentExpression,   \* mcp-server.ts: the RPC module's own copy of the name
  mcpAvatarState,         \* mcp-server.ts: the RPC module's own copy of the state
  idsIssued,              \* number of batch ids generated so far (uuid / Math.random)
  inflight,               \* poll responses on their way to the page, in request order
  currentBatch,           \* index.html: the batch the player runs, or NoBatch
  currentBatchId,         \* index.html: its id, or 0
  currentActionIndex,     \* index.html: 0-based frame index
  batchTimeout,           \* index.html: handle of the timer armed last, or 0
  timers,                 \* the browser's pending setTimeout timers
  displayed,              \* what updateSingleExpression last put on the page
  shownFor,               \* time units since the last render (capped)
  awaiting,               \* id of the non-looping batch whose run has ended, or 0
  lastStopped,            \* id of the batch the player stopped last on a batch-less view, or 0
  startup,                \* index.ts: expressions.json, the expressions loaded, how far startup got
  ev                      \* the step taken last

storeVars  == <<currentExpression, avatarState, batchExpressionsState>>
mcpVars    == <<mcpCurrentExpression, mcpAvatarState>>
playerVars == <<currentBatch, currentBatchId, currentActionIndex, batchTimeout,
                timers, displayed, shownFor, awaiting, lastStopped>>
vars       == <<currentExpression, avatarState, batchExpressionsState,
                mcpCurrentExpression, mcpAvatarState, idsIssued, inflight,
                currentBatch, currentBatchId, currentActionIndex, batchTimeout,
                timers, displayed, shownFor, awaiting, lastStopped, startup, ev>>

----------------------------------------------------------------------------
(* Bounds of the model *)

MaxActions  == 2      \* longest action list a set-batch call carries
MaxBatches  == 2      \* batch ids generated in one run
MaxInflight == 2      \* poll responses in flight at once

----------------------------------------------------------------------------
(* Values *)

Undefined == <<>>
Some(v)   == <<v>>
IsGiven(o) == o /= <<>>
Val(o)    == o[1]

NaN      == -1000000     \* the number NaN (parseInt / parseFloat of a non-number)
JsonNull == -2000000     \* JSON null: what JSON.stringify writes for NaN

IsNaN(x) == x = NaN

RotationMin == -30
RotationMax == 30
ScaleMin    == 1         \* 0.1
ScaleMax    == 30        \* 3.0
ScaleOne    == 10        \* 1.0
DefaultDuration == 1000

\* Math.max / Math.min: NaN if either argument is NaN
MathMax(a, b) == IF IsNaN(a) \/ IsNaN(b) THEN NaN ELSE IF a >= b THEN a ELSE b
MathMin(a, b) == IF IsNaN(a) \/ IsNaN(b) THEN NaN ELSE IF a <= b THEN a ELSE b

LimitRotation(r) == MathMax(RotationMin, MathMin(RotationMax, r))
LimitScale(s)    == MathMax(ScaleMin, MathMin(ScaleMax, s))

\* the expression catalog (public/expressions.json), a name outside it, and a name
\* outside it that every object literal answers for (a key of Object.prototype)
Catalog == {"joyful", "perplexed"}
UnknownNames == {"bogus"}
InheritedNames == {"constructor"}

\* expressionMap[name] is truthy; expressionMap is an object literal filled from the
\* catalog, so it also yields a value for the keys it inherits
ExpressionMapHas(name) == name \in Catalog \cup InheritedNames
ImageUrl(name) == <<"/images/", name, ".png">>

DefaultAvatarState ==
  [direction |-> "right", posX |-> 0, posY |-> 0, rotation |-> 0, scale |-> ScaleOne]

NoBatch == [loop |-> FALSE, random |-> FALSE, actions |-> <<>>, batchId |-> 0]
IsBatch(b) == b /= NoBatch

----------------------------------------------------------------------------
(* Query-string numbers: parseInt(s, 10) and parseFloat(s) *)

Digits == {"0", "1", "2", "3", "4", "5", "6", "7", "8", "9"}
DigitVal(c) ==
  CASE c = "0" -> 0 [] c = "1" -> 1 [] c = "2" -> 2 [] c = "3" -> 3 [] c = "4" -> 4
    [] c = "5" -> 5 [] c = "6" -> 6 [] c = "7" -> 7 [] c = "8" -> 8 [] c = "9" -> 9

RECURSIVE DigitRun(_)
DigitRun(s) ==
  IF s = <<>> \/ Head(s) \notin Digits THEN <<>> ELSE <<Head(s)>> \o DigitRun(Tail(s))

RECURSIVE DigitsValue(_)
DigitsValue(d) ==
  IF d = <<>> THEN 0
  ELSE DigitsValue(SubSeq(d, 1, Len(d) - 1)) * 10 + DigitVal(d[Len(d)])

HasSign(s)   == s /= <<>> /\ Head(s) \in {"-", "+"}
Unsigned(s)  == IF HasSign(s) THEN Tail(s) ELSE s
SignOf(s)    == IF s /= <<>> /\ Head(s) = "-" THEN -1 ELSE 1

\* parseInt(s, 10): optional sign, then the longest run of digits; NaN if none
ParseInt(s) ==
  LET run == DigitRun(Unsigned(s))
  IN  IF run = <<>> THEN NaN ELSE SignOf(s) * DigitsValue(run)

\* parseFloat(s), in tenths: sign, digits, optional "." and digits; NaN if no digit.
\* Exact for the strings of at most one fractional digit the model feeds it.
ParseFloat(s) ==
  LET body == Unsigned(s)
      ip   == DigitRun(body)
      rest == SubSeq(body, Len(ip) + 1, Len(body))
      fp   == IF rest /= <<>> /\ Head(rest) = "." THEN DigitRun(Tail(rest)) ELSE <<>>
  IN  IF ip = <<>> /\ fp = <<>> THEN NaN
      ELSE SignOf(s) * (DigitsValue(ip) * 10 + (IF fp = <<>> THEN 0 ELSE DigitVal(fp[1])))

----------------------------------------------------------------------------
(* The avatar state store: src/src/index.ts *)

Store == [currentExpression     |-> currentExpression,
          avatarState           |-> avatarState,
          batchExpressionsState |-> batchExpressionsState]

SetStore(S) ==
  /\ currentExpression' = S.currentExpression
  /\ avatarState' = S.avatarState
  /\ batchExpressionsState' = S.batchExpressionsState

ActionState(a) ==
  [direction |-> a.direction, posX |-> a.posX, posY |-> a.posY,
   rotation |-> a.rotation, scale |-> a.scale]

\* handleExpressionUpdate taking the visual state but not the name
HandleExpressionUpdateKeepsName(S, name, state) ==
  IF ExpressionMapHas(name)
  THEN [currentExpression |-> S.currentExpression, avatarState |-> state,
        batchExpressionsState |-> NoBatch]
  ELSE S

\* handleExpressionUpdate(name, state): the callback the RPC module calls
HandleExpressionUpdate(S, name, state) ==
  IF ExpressionMapHas(name)
  THEN [currentExpression |-> name, avatarState |-> state,
        batchExpressionsState |-> NoBatch]
  ELSE S

\* handleBatchExpressionsUpdate storing a batch without taking its first frame's
\* visual state
HandleBatchExpressionsKeepsState(S, b, uuid) ==
  LET validActions == SelectSeq(b.actions, LAMBDA a : ExpressionMapHas(a.expression))
  IN  IF validActions = <<>> THEN S
      ELSE IF Len(validActions) = 1 /\ ~b.loop
      THEN [currentExpression |-> validActions[1].expression,
            avatarState |-> ActionState(validActions[1]),
            batchExpressionsState |-> NoBatch]
      ELSE [currentExpression |-> validActions[1].expression,
            avatarState |-> S.avatarState,
            batchExpressionsState |->
              [loop |-> b.loop, random |-> b.random, actions |-> validActions,
               batchId |-> IF b.batchId = 0 THEN uuid ELSE b.batchId]]

\* handleBatchExpressionsUpdate without its single-action branch
HandleBatchExpressionsStoresAll(S, b, uuid) ==
  LET validActions == SelectSeq(b.actions, LAMBDA a : ExpressionMapHas(a.expression))
  IN  IF validActions = <<>> THEN S
      ELSE [currentExpression |-> validActions[1].expression,
            avatarState |-> ActionState(validActions[1]),
            batchExpressionsState |->
              [loop |-> b.loop, random |-> b.random, actions |-> validActions,
               batchId |-> IF b.batchId = 0 THEN uuid ELSE b.batchId]]

\* handleBatchExpressionsUpdate storing every batch under an id of its own instead
\* of the one the descriptor carries
HandleBatchExpressionsRenumbers(S, b, uuid) ==
  LET validActions == SelectSeq(b.actions, LAMBDA a : ExpressionMapHas(a.expression))
  IN  IF validActions = <<>> THEN S
      ELSE IF Len(validActions) = 1 /\ ~b.loop
      THEN [currentExpression |-> validActions[1].expression,
            avatarState |-> ActionState(validActions[1]),
            batchExpressionsState |-> NoBatch]
      ELSE [currentExpression |-> validActions[1].expression,
            avatarState |-> ActionState(validActions[1]),
            batchExpressionsState |->
              [loop |-> b.loop, random |-> b.random, actions |-> validActions,
               batchId |-> uuid + MaxBatches]]

\* handleBatchExpressionsUpdate(batchExpressions); uuid is the id uuidv4() would give
HandleBatchExpressionsUpdate(S, b, uuid) ==
  LET validActions == SelectSeq(b.actions, LAMBDA a : ExpressionMapHas(a.expression))
  IN  IF validActions = <<>> THEN S
      ELSE IF Len(validActions) = 1 /\ ~b.loop
      THEN [currentExpression |-> validActions[1].expression,
            avatarState |-> ActionState(validActions[1]),
            batchExpressionsState |-> NoBatch]
      ELSE [currentExpression |-> validActions[1].expression,
            avatarState |-> ActionState(validActions[1]),
            batchExpressionsState |->
              [loop |-> b.loop, random |-> b.random, actions |-> validActions,
               batchId |-> IF b.batchId = 0 THEN uuid ELSE b.batchId]]

\* JSON.stringify of a number
Json(x) == IF IsNaN(x) THEN JsonNull ELSE x

NotFound ==
  [ok |-> FALSE, name |-> "", imageUrl |-> <<>>, direction |-> "", posX |-> 0,
   posY |-> 0, rotation |-> 0, scale |-> 0, batchExpressions |-> NoBatch]

\* GET /api/current-expression: the response body (404 if the name does not resolve);
\* name and imageUrl are spread from the map's entry, and only a catalog entry has them
CurrentExpressionResponse(S) ==
  IF ~ExpressionMapHas(S.currentExpression) THEN NotFound
  ELSE [ok |-> TRUE,
        name |-> IF S.currentExpression \in Catalog THEN S.currentExpression ELSE "",
        imageUrl |-> IF S.currentExpression \in Catalog
                     THEN ImageUrl(S.currentExpression) ELSE <<>>,
        direction |-> S.avatarState.direction,
        posX |-> Json(S.avatarState.posX), posY |-> Json(S.avatarState.posY),
        rotation |-> Json(S.avatarState.rotation), scale |-> Json(S.avatarState.scale),
        batchExpressions |-> S.batchExpressionsState]

\* GET /api/set-expression?name&direction&pos_x&pos_y&rotation&scale
HttpSetExpressionUpdate(S, q) ==
  IF ~(IsGiven(q.name) /\ ExpressionMapHas(Val(q.name))) THEN S
  ELSE LET st == S.avatarState
           scaleValue == IF IsGiven(q.scale) THEN ParseFloat(Val(q.scale)) ELSE NaN
       IN [currentExpression |-> Val(q.name),
           avatarState |->
             [direction |-> IF q.direction \in {Some("left"), Some("right")}
                            THEN Val(q.direction) ELSE st.direction,
              posX |-> IF IsGiven(q.pos_x) THEN ParseInt(Val(q.pos_x)) ELSE st.posX,
              posY |-> IF IsGiven(q.pos_y) THEN ParseInt(Val(q.pos_y)) ELSE st.posY,
              rotation |-> IF IsGiven(q.rotation)
                           THEN LimitRotation(ParseInt(Val(q.rotation)))
                           ELSE st.rotation,
              scale |-> IF IsGiven(q.scale) /\ ~IsNaN(scaleValue)
                        THEN LimitScale(scaleValue) ELSE st.scale],
           batchExpressionsState |-> S.batchExpressionsState]

\* the merge of the optional arguments of setAvatarExpression over a state
MergeArgs(st, a) ==
  [direction |-> IF a.direction \in {Some("left"), Some("right")}
                 THEN Val(a.direction) ELSE st.direction,
   posX |-> IF IsGiven(a.posX) THEN Val(a.posX) ELSE st.posX,
   posY |-> IF IsGiven(a.posY) THEN Val(a.posY) ELSE st.posY,
   rotation |-> IF IsGiven(a.rotation) THEN LimitRotation(Val(a.rotation)) ELSE st.rotation,
   scale |-> IF IsGiven(a.scale) THEN LimitScale(Val(a.scale)) ELSE st.scale]

\* mcpTools.setAvatarExpression.function (the legacy export): throws on an unknown name
LegacySetAvatarExpressionUpdate(S, a) ==
  IF ~ExpressionMapHas(a.name) THEN S
  ELSE [currentExpression |-> a.name,
        avatarState |-> MergeArgs(S.avatarState, a),
        batchExpressionsState |-> NoBatch]

\* one action of a set-batch call as the legacy tool function prepares it
LegacyValidAction(a) ==
  [expression |-> a.expression, duration |-> a.duration,
   direction |-> IF a.direction \in {Some("left"), Some("right")}
                 THEN Val(a.direction) ELSE "right",
   posX |-> IF IsGiven(a.posX) THEN Val(a.posX) ELSE 0,
   posY |-> IF IsGiven(a.posY) THEN Val(a.posY) ELSE 0,
   rotation |-> IF IsGiven(a.rotation) THEN LimitRotation(Val(a.rotation)) ELSE 0,
   scale |-> IF IsGiven(a.scale) THEN LimitScale(Val(a.scale)) ELSE ScaleOne]

\* a validation that does not look at the durations
LegacyBatchAcceptedAnyDuration(c) ==
  /\ c.actions /= <<>>
  /\ \A i \in DOMAIN c.actions :
       /\ c.actions[i].expression /= ""
       /\ ExpressionMapHas(c.actions[i].expression)

\* mcpTools.setBatchExpressions.function: does the call pass validation (else it throws)
LegacyBatchAccepted(c) ==
  /\ c.actions /= <<>>
  /\ \A i \in DOMAIN c.actions :
       /\ c.actions[i].expression /= ""
       /\ ExpressionMapHas(c.actions[i].expression)
       /\ c.actions[i].duration > 0

\* mcpTools.setBatchExpressions.function; uuid is the id uuidv4() gives
LegacySetBatchExpressionsUpdate(S, c, uuid) ==
  IF ~LegacyBatchAccepted(c) THEN S
  ELSE HandleBatchExpressionsUpdate(S,
         [loop |-> c.loop,
          random |-> IF IsGiven(c.random) THEN Val(c.random) ELSE FALSE,
          actions |-> [i \in DOMAIN c.actions |-> LegacyValidAction(c.actions[i])],
          batchId |-> uuid], uuid)

----------------------------------------------------------------------------
(* The RPC tool module: mcp-server.ts (src/unnamed/part_002) *)

\* one action of a set-batch call as the setBatchExpressions tool prepares it
RpcValidAction(a) ==
  [expression |-> a.expression,
   duration |-> IF a.duration = 0 THEN DefaultDuration ELSE a.duration,
   direction |-> IF IsGiven(a.direction) THEN Val(a.direction) ELSE "right",
   posX |-> IF IsGiven(a.posX) THEN Val(a.posX) ELSE 0,
   posY |-> IF IsGiven(a.posY) THEN Val(a.posY) ELSE 0,
   rotation |-> IF IsGiven(a.rotation) THEN LimitRotation(Val(a.rotation)) ELSE 0,
   scale |-> IF IsGiven(a.scale) THEN LimitScale(Val(a.scale)) ELSE ScaleOne]

\* the setBatchExpressions tool's argument schema: duration is z.number().min(1)
RpcSchemaAccepts(c) == \A i \in DOMAIN c.actions : c.actions[i].duration >= 1

\* the setBatchExpressions tool: does the call get through (else the arguments fail the
\* schema, or the handler throws)
RpcBatchAccepted(c) ==
  /\ RpcSchemaAccepts(c)
  /\ c.actions /= <<>>
  /\ \A i \in DOMAIN c.actions :
       /\ c.actions[i].expression /= ""
       /\ ExpressionMapHas(c.actions[i].expression)

\* the descriptor the setBatchExpressions tool hands to onBatchExpressionsUpdate
RpcBatchExpressions(c, batchId) ==
  [loop |-> c.loop,
   random |-> IF IsGiven(c.random) THEN Val(c.random) ELSE FALSE,
   actions |-> [i \in DOMAIN c.actions |-> RpcValidAction(c.actions[i])],
   batchId |-> batchId]

----------------------------------------------------------------------------
(* The batch player: src/public/index.html *)

Player == [currentBatch       |-> currentBatch,
           currentBatchId     |-> currentBatchId,
           currentActionIndex |-> currentActionIndex,
           batchTimeout       |-> batchTimeout,
           timers             |-> timers,
           displayed          |-> displayed,
           shownFor           |-> shownFor]

SetPlayer(P) ==
  /\ currentBatch' = P.currentBatch
  /\ currentBatchId' = P.currentBatchId
  /\ currentActionIndex' = P.currentActionIndex
  /\ batchTimeout' = P.batchTimeout
  /\ timers' = P.timers
  /\ displayed' = P.displayed
  /\ shownFor' = P.shownFor

\* the page before the first poll: no image, CSS defaults
BlankDisplay ==
  [name |-> "", imageUrl |-> <<>>, direction |-> "right", posX |-> 0, posY |-> 0,
   rotation |-> 0, scale |-> ScaleOne]

\* x || d for a number x: 0, NaN and null are falsy
OrElse(x, d) == IF x = 0 \/ x = NaN \/ x = JsonNull THEN d ELSE x

\* updateSingleExpression(data): what ends up on the page.  A null offset gives the
\* margin "nullpx", which the style ignores: the old margin stays.
UpdateSingleExpression(P, data) ==
  [P EXCEPT !.displayed =
       [name |-> data.name, imageUrl |-> data.imageUrl,
        direction |-> IF data.direction = "left" THEN "left" ELSE "right",
        posX |-> IF data.posX = JsonNull THEN @.posX ELSE data.posX,
        posY |-> IF data.posY = JsonNull THEN @.posY ELSE data.posY,
        rotation |-> OrElse(data.rotation, 0),
        scale |-> OrElse(data.scale, ScaleOne)],
     !.shownFor = 0]

\* setTimeout's return value: a handle no pending timer has and batchTimeout does not name
NewHandle(P) ==
  CHOOSE h \in 1..(Cardinality(P.timers) + 2) :
    /\ h /= P.batchTimeout
    /\ \A t \in P.timers : t.handle /= h
    /\ \A g \in 1..(h - 1) : g = P.batchTimeout \/ \E t \in P.timers : t.handle = g

\* the data object processBatchAction builds for an action
ExpressionData(action) ==
  [name |-> action.expression, imageUrl |-> ImageUrl(action.expression),
   direction |-> IF action.direction = "" THEN "right" ELSE action.direction,
   posX |-> OrElse(action.posX, 0), posY |-> OrElse(action.posY, 0),
   rotation |-> OrElse(action.rotation, 0), scale |-> OrElse(action.scale, ScaleOne)]

\* processBatchAction(): render the current action and arm its timer
ProcessBatchAction(P) ==
  IF ~IsBatch(P.currentBatch) \/ P.currentBatch.actions = <<>> THEN P
  ELSE IF P.currentActionIndex + 1 \notin DOMAIN P.currentBatch.actions
  THEN P      \* actions[index] is undefined: reading its expression throws
  ELSE LET action == P.currentBatch.actions[P.currentActionIndex + 1]
           P1 == UpdateSingleExpression(P, ExpressionData(action))
           h  == NewHandle(P)
       IN  [P1 EXCEPT !.batchTimeout = h,
                      !.timers = @ \cup {[handle |-> h, delay |-> action.duration,
                                          batch |-> P.currentBatchId]}]

\* stopBatchExpression without its clearTimeout
StopBatchExpressionKeepsTimer(P) ==
  [P EXCEPT !.batchTimeout = 0,
            !.currentBatch = NoBatch,
            !.currentBatchId = 0,
            !.currentActionIndex = 0]

\* stopBatchExpression()
StopBatchExpression(P) ==
  [P EXCEPT !.timers = IF P.batchTimeout /= 0
                       THEN {t \in @ : t.handle /= P.batchTimeout} ELSE @,
            !.batchTimeout = 0,
            !.currentBatch = NoBatch,
            !.currentBatchId = 0,
            !.currentActionIndex = 0]

\* startBatchExpression(batchData)
StartBatchExpression(P, batchData) ==
  ProcessBatchAction([StopBatchExpression(P) EXCEPT
                        !.currentBatch = batchData,
                        !.currentBatchId = batchData.batchId,
                        !.currentActionIndex = 0])

\* updateAvatar treating a failed poll as a view without a batch
UpdateAvatarStopsOnFailure(P, data) ==
  IF ~data.ok THEN StopBatchExpression(P)
  ELSE IF IsBatch(data.batchExpressions)
  THEN IF P.currentBatchId /= data.batchExpressions.batchId
       THEN StartBatchExpression(P, data.batchExpressions)
       ELSE P
  ELSE UpdateSingleExpression(StopBatchExpression(P), data)

\* updateAvatar starting a batch only when it tracks none
UpdateAvatarOnlyWhenIdle(P, data) ==
  IF ~data.ok THEN P
  ELSE IF IsBatch(data.batchExpressions)
  THEN IF P.currentBatchId = 0
       THEN StartBatchExpression(P, data.batchExpressions)
       ELSE P
  ELSE UpdateSingleExpression(StopBatchExpression(P), data)

\* updateAvatar without the batchId comparison
UpdateAvatarAlwaysStarts(P, data) ==
  IF ~data.ok THEN P
  ELSE IF IsBatch(data.batchExpressions)
  THEN StartBatchExpression(P, data.batchExpressions)
  ELSE UpdateSingleExpression(StopBatchExpression(P), data)

\* updateAvatar(), from the response on: data is the response body
UpdateAvatar(P, data) ==
  IF ~data.ok THEN P          \* "Failed to fetch current expression" is caught
  ELSE IF IsBatch(data.batchExpressions)
  THEN IF P.currentBatchId /= data.batchExpressions.batchId
       THEN StartBatchExpression(P, data.batchExpressions)
       ELSE P
  ELSE UpdateSingleExpression(StopBatchExpression(P), data)

\* a reshuffle that draws every position afresh, so that an action may come twice
ShufflesWithRepeats(actions) ==
  LET n == Len(actions)
  IN  {[i \in 1..n |-> actions[f[i]]] : f \in [1..n -> 1..n]}

\* the orders [...actions].sort(() => Math.random() - 0.5) can give
Shuffles(actions) ==
  LET n == Len(actions)
      perms == {f \in [1..n -> 1..n] : \A i, j \in 1..n : f[i] = f[j] => i = j}
  IN  {[i \in 1..n |-> actions[f[i]]] : f \in perms}

\* the timer callback without its loop branch: every batch ends after its last frame
TimerCallbackNoLoop(P, shuffled) ==
  LET i == P.currentActionIndex + 1
  IN  IF ~IsBatch(P.currentBatch)
      THEN [P EXCEPT !.currentActionIndex = i]
      ELSE IF i >= Len(P.currentBatch.actions)
      THEN [P EXCEPT !.currentActionIndex = i,
                     !.currentBatch = NoBatch,
                     !.currentBatchId = 0]
      ELSE ProcessBatchAction([P EXCEPT !.currentActionIndex = i])

\* the timer callback leaving the index past the last frame when a looping batch wraps
TimerCallbackStaysAtEnd(P, shuffled) ==
  LET i == P.currentActionIndex + 1
  IN  IF ~IsBatch(P.currentBatch)
      THEN [P EXCEPT !.currentActionIndex = i]
      ELSE IF i >= Len(P.currentBatch.actions)
      THEN IF P.currentBatch.loop
           THEN [P EXCEPT !.currentActionIndex = i]
           ELSE [P EXCEPT !.currentActionIndex = i,
                          !.currentBatch = NoBatch,
                          !.currentBatchId = 0]
      ELSE ProcessBatchAction([P EXCEPT !.currentActionIndex = i])

\* the setTimeout callback of processBatchAction; shuffled is the order a reshuffle draws
TimerCallback(P, shuffled) ==
  LET i == P.currentActionIndex + 1
  IN  IF ~IsBatch(P.currentBatch)
      THEN [P EXCEPT !.currentActionIndex = i]   \* null.actions throws after the ++
      ELSE IF i >= Len(P.currentBatch.actions)
      THEN IF P.currentBatch.loop
           THEN ProcessBatchAction(
                  [P EXCEPT !.currentBatch.actions =
                                IF P.currentBatch.random THEN shuffled ELSE @,
                            !.currentActionIndex = 0])
           ELSE [P EXCEPT !.currentActionIndex = i,
                          !.currentBatch = NoBatch,
                          !.currentBatchId = 0]
      ELSE ProcessBatchAction([P EXCEPT !.currentActionIndex = i])

----------------------------------------------------------------------------
(* Inputs of the calls *)

NoArgs(n) == [name |-> n, direction |-> Undefined, posX |-> Undefined,
              posY |-> Undefined, rotation |-> Undefined, scale |-> Undefined]

\* arguments of the setAvatarExpression tool and of the legacy tool function
ToolArgs ==
  UNION {{NoArgs(n),
          [name |-> n, direction |-> Some("left"), posX |-> Some(10),
           posY |-> Some(-5), rotation |-> Some(45), scale |-> Some(35)]}
         : n \in Catalog \cup UnknownNames}
  \cup {NoArgs(n) : n \in InheritedNames}

\* query strings of GET /api/set-expression: name only, a rotation that is no number,
\* and every field given with numbers beyond the limits
HttpQueries ==
  UNION {{[name |-> Some(n), direction |-> Undefined, pos_x |-> Undefined,
           pos_y |-> Undefined, rotation |-> Undefined, scale |-> Undefined],
          [name |-> Some(n), direction |-> Undefined, pos_x |-> Undefined,
           pos_y |-> Undefined, rotation |-> Some(<<"l", "e", "a", "n">>),
           scale |-> Undefined],
          [name |-> Some(n), direction |-> Some("left"),
           pos_x |-> Some(<<"-", "2", "0">>), pos_y |-> Some(<<"1", "5">>),
           rotation |-> Some(<<"-", "4", "5">>), scale |-> Some(<<"0", ".", "5">>)]}
         : n \in Catalog \cup UnknownNames}
  \cup {[name |-> Some(n), direction |-> Undefined, pos_x |-> Undefined,
          pos_y |-> Undefined, rotation |-> Undefined, scale |-> Undefined]
         : n \in InheritedNames}

RawAction(e, d, dir, rot) ==
  [expression |-> e, duration |-> d, direction |-> dir, posX |-> Undefined,
   posY |-> Undefined, rotation |-> rot, scale |-> Undefined]

\* the actions set-batch calls are built from
RawActions ==
  {RawAction("joyful", 1, Undefined, Undefined),
   RawAction("perplexed", 2, Some("left"), Some(45)),
   RawAction("bogus", 1, Undefined, Undefined),
   RawAction("constructor", 1, Undefined, Undefined)}

BatchCalls ==
  {[loop |-> l, random |-> r, actions |-> as] :
     l \in BOOLEAN, r \in {Undefined, Some(TRUE)},
     as \in UNION {[1..n -> RawActions] : n \in 1..MaxActions}}

----------------------------------------------------------------------------
(* The steps *)

\* ev: the step taken last, its outcome, a batch id (the one a read returned, the one
\* stored when a set-batch call arrived), and whether the step cancelled a pending timer;
\* for a call, how it ended ("json", "error": an HTTP body and an HTTP error body;
\* "text": a tool response carrying text; "throw": an exception leaves the handler;
\* "invalid": the arguments fail the tool's schema and the handler is not called),
\* and for a set-batch call the number of actions sent, the number reported back, the
\* number of sent actions whose name is in the catalog, the number whose duration is
\* not positive and, for a posted call, the call;
\* for a set-expression call the name it asked for; for a set-batch call a tool
\* function accepted, the first action as it was sent, and for a call of the legacy
\* set-batch function the batchId its return value carries (0 when it throws)
Ev(op, effect, id, cancelled) ==
  [op |-> op, effect |-> effect, id |-> id, cancelled |-> cancelled,
   reply |-> "none", sent |-> 0, count |-> 0, known |-> 0, untimed |-> 0,
   call |-> <<>>, name |-> "", first |-> <<>>, reported |-> 0]

Answer(e, reply, sent, count) ==
  [e EXCEPT !.reply = reply, !.sent = sent, !.count = count]

Asking(e, name) == [e EXCEPT !.name = name]

Reporting(e, batchId) == [e EXCEPT !.reported = batchId]

Naming(e, actions) ==
  [e EXCEPT !.known = Len(SelectSeq(actions, LAMBDA a : a.expression \in Catalog)),
            !.untimed = Len(SelectSeq(actions, LAMBDA a : a.duration <= 0)),
            !.first = IF e.effect = "rejected" THEN <<>> ELSE <<actions[1]>>]

Called(e, c) == [Naming(e, c.actions) EXCEPT !.call = <<c>>, !.first = <<>>]

Outcome(accepted) == IF accepted THEN "ok" ELSE "rejected"

\* the outcome of a set-batch call; "okSingle": accepted with one action and loop = false
BatchOutcome(accepted, c) ==
  IF ~accepted THEN "rejected"
  ELSE IF Len(c.actions) = 1 /\ ~c.loop THEN "okSingle" ELSE "ok"

\* an id generator that repeats the id it gave last
RepeatedBatchId == IF idsIssued = 0 THEN 1 ELSE idsIssued

\* uuidv4() / Math.random().toString(36): an id never generated before
NewBatchId == idsIssued + 1

\* GET /api/set-expression
HttpSetExpression(q) ==
  /\ SetStore(HttpSetExpressionUpdate(Store, q))
  /\ ev' = Asking(Answer(Ev("httpSet",
                            Outcome(IsGiven(q.name) /\ ExpressionMapHas(Val(q.name))),
                            0, FALSE),
                         IF IsGiven(q.name) /\ ExpressionMapHas(Val(q.name))
                         THEN "json" ELSE "error",
                         0, 0),
                  IF IsGiven(q.name) THEN Val(q.name) ELSE "")
  /\ UNCHANGED <<startup, mcpVars, idsIssued, inflight, playerVars>>

\* what the setAvatarExpression tool does to the store: nothing for a name the map
\* does not resolve, else the module's copy, merged with the arguments, is pushed
RpcSetAvatarExpressionUpdate(S, copy, a) ==
  IF ~ExpressionMapHas(a.name) THEN S
  ELSE HandleExpressionUpdate(S, a.name, MergeArgs(copy, a))

\* the setAvatarExpression tool
RpcSetAvatarExpression(a) ==
  /\ IF ~ExpressionMapHas(a.name)
     THEN UNCHANGED mcpVars
     ELSE /\ mcpCurrentExpression' = a.name
          /\ mcpAvatarState' = MergeArgs(mcpAvatarState, a)
  /\ SetStore(RpcSetAvatarExpressionUpdate(Store, mcpAvatarState, a))
  /\ ev' = Asking(Answer(Ev("rpcSet", Outcome(ExpressionMapHas(a.name)), 0, FALSE),
                         "text", 0, 0), a.name)
  /\ UNCHANGED <<startup, idsIssued, inflight, playerVars>>

\* the listAvatarExpressions tool: a text naming the keys of expressionMap
RpcListAvatarExpressions ==
  /\ ev' = Answer(Ev("rpcList", "ok", 0, FALSE), "text", 0, 0)
  /\ UNCHANGED <<startup, storeVars, mcpVars, idsIssued, inflight, playerVars>>

\* mcpTools.setAvatarExpression.function
LegacySetAvatarExpression(a) ==
  /\ SetStore(LegacySetAvatarExpressionUpdate(Store, a))
  /\ ev' = Asking(Answer(Ev("legacySet", Outcome(ExpressionMapHas(a.name)), 0, FALSE),
                         IF ExpressionMapHas(a.name) THEN "json" ELSE "throw", 0, 0),
                  a.name)
  /\ UNCHANGED <<startup, mcpVars, idsIssued, inflight, playerVars>>

\* the setBatchExpressions tool
RpcSetBatchExpressions(c) ==
  /\ idsIssued < MaxBatches
  /\ IF ~RpcBatchAccepted(c)
     THEN UNCHANGED <<storeVars, mcpVars, idsIssued>>
     ELSE LET b == RpcBatchExpressions(c, NewBatchId)
          IN  /\ SetStore(HandleBatchExpressionsUpdate(Store, b, NewBatchId))
              /\ mcpCurrentExpression' = b.actions[1].expression
              /\ mcpAvatarState' = ActionState(b.actions[1])
              /\ idsIssued' = idsIssued + 1
  /\ ev' = Naming(Answer(Ev("rpcBatch", BatchOutcome(RpcBatchAccepted(c), c),
                            batchExpressionsState.batchId, FALSE),
                         IF ~RpcSchemaAccepts(c) THEN "invalid"
                         ELSE IF c.actions = <<>> \/ RpcBatchAccepted(c) THEN "text"
                         ELSE "throw",
                         Len(c.actions),
                         IF RpcBatchAccepted(c) THEN Len(c.actions) ELSE 0), c.actions)
  /\ UNCHANGED <<startup, inflight, playerVars>>

\* mcpTools.setBatchExpressions.function
LegacySetBatchExpressions(c) ==
  /\ idsIssued < MaxBatches
  /\ SetStore(LegacySetBatchExpressionsUpdate(Store, c, NewBatchId))
  /\ idsIssued' = IF LegacyBatchAccepted(c) THEN idsIssued + 1 ELSE idsIssued
  /\ ev' = Reporting(
             Naming(Answer(Ev("legacyBatch", BatchOutcome(LegacyBatchAccepted(c), c),
                              batchExpressionsState.batchId, FALSE),
                           IF LegacyBatchAccepted(c) THEN "json" ELSE "throw",
                           Len(c.actions),
                           IF LegacyBatchAccepted(c) THEN Len(c.actions) ELSE 0), c.actions),
             IF LegacyBatchAccepted(c) THEN NewBatchId ELSE 0)
  /\ UNCHANGED <<startup, mcpVars, inflight, playerVars>>

\* a read that hands the batch out once and forgets it
CurrentExpressionConsumesBatch(S) == [S EXCEPT !.batchExpressionsState = NoBatch]

\* what GET /api/current-expression does to the store: nothing
CurrentExpressionStore(S) == S

\* a poll: the page's fetch reaches GET /api/current-expression
PollRequest ==
  /\ Len(inflight) < MaxInflight
  /\ inflight' = Append(inflight, CurrentExpressionResponse(Store))
  /\ SetStore(CurrentExpressionStore(Store))
  /\ ev' = Ev("poll", "ok", 0, FALSE)
  /\ UNCHANGED <<startup, mcpVars, idsIssued, playerVars>>

\* a poll that fails: the fetch rejects, or the response is not OK; the page gets no body
FetchFails ==
  /\ Len(inflight) < MaxInflight
  /\ inflight' = Append(inflight, NotFound)
  /\ ev' = Ev("poll", "fail", 0, FALSE)
  /\ UNCHANGED <<startup, storeVars, mcpVars, idsIssued, playerVars>>

\* the responses still in flight once response i has arrived
Without(s, i) == SubSeq(s, 1, i - 1) \o SubSeq(s, i + 1, Len(s))

DeliverEffect(data) ==
  IF ~data.ok THEN "fail"
  ELSE IF IsBatch(data.batchExpressions)
  THEN IF currentBatchId /= data.batchExpressions.batchId THEN "start" ELSE "same"
  ELSE IF currentBatchId /= 0 THEN "stop" ELSE "single"

\* the response of poll i reaches the page: the rest of updateAvatar runs
PollDeliver(i) ==
  LET data == inflight[i]
  IN  /\ SetPlayer(UpdateAvatar(Player, data))
      /\ inflight' = Without(inflight, i)
      /\ lastStopped' = IF DeliverEffect(data) = "stop" THEN currentBatchId ELSE lastStopped
      /\ awaiting' = IF DeliverEffect(data) \in {"start", "stop", "single"} THEN 0 ELSE awaiting
      /\ ev' = Ev("deliver", DeliverEffect(data), 0,
                  \E t \in timers : t \notin timers')
      /\ UNCHANGED <<startup, storeVars, mcpVars, idsIssued>>

\* shownFor stops counting one unit past the longest frame
LongestDuration == CHOOSE d \in {a.duration : a \in RawActions} :
                     \A a \in RawActions : a.duration <= d
MaxShown == LongestDuration + 1

\* one time unit passes; a timer that is due fires before more time passes
Tick ==
  /\ timers /= {}
  /\ \A t \in timers : t.delay > 0
  /\ timers' = {[t EXCEPT !.delay = @ - 1] : t \in timers}
  /\ shownFor' = IF shownFor < MaxShown THEN shownFor + 1 ELSE shownFor
  /\ ev' = Ev("tick", "ok", 0, FALSE)
  /\ UNCHANGED <<startup, storeVars, mcpVars, idsIssued, inflight, currentBatch, currentBatchId,
                 currentActionIndex, batchTimeout, displayed, awaiting, lastStopped>>

TimerEffect ==
  IF ~IsBatch(currentBatch) THEN "throw"
  ELSE IF currentActionIndex + 1 >= Len(currentBatch.actions)
  THEN IF currentBatch.loop THEN "wrap" ELSE "end"
  ELSE "advance"

\* a due timer fires: its callback runs
TimerFire(t) ==
  /\ t.delay = 0
  /\ \E shuffled \in IF TimerEffect = "wrap" /\ currentBatch.random
                     THEN Shuffles(currentBatch.actions) ELSE {<<>>} :
       SetPlayer(TimerCallback([Player EXCEPT !.timers = @ \ {t}], shuffled))
  /\ awaiting' = IF TimerEffect = "end" THEN currentBatchId ELSE awaiting
  /\ ev' = Ev("timer", TimerEffect, 0, FALSE)
  /\ UNCHANGED <<startup, storeVars, mcpVars, idsIssued, inflight, lastStopped>>

\* startup is over: expressions.json listed the catalog, the server is listening
Serving ==
  [file |-> [readable |-> TRUE, entries |-> <<"joyful", "perplexed">>],
   expressions |-> <<"joyful", "perplexed">>, stage |-> "serving"]

Init ==
  /\ currentExpression = "joyful"
  /\ avatarState = DefaultAvatarState
  /\ batchExpressionsState = NoBatch
  /\ mcpCurrentExpression = IF "joyful" \in Catalog THEN "joyful"
                            ELSE CHOOSE n \in Catalog : TRUE
  /\ mcpAvatarState = DefaultAvatarState
  /\ idsIssued = 0
  /\ inflight = <<>>
  /\ currentBatch = NoBatch
  /\ currentBatchId = 0
  /\ currentActionIndex = 0
  /\ batchTimeout = 0
  /\ timers = {}
  /\ displayed = BlankDisplay
  /\ shownFor = 0
  /\ awaiting = 0
  /\ lastStopped = 0
  /\ startup = Serving
  /\ ev = Ev("init", "ok", 0, FALSE)

\* any client reads GET /api/current-expression; ev keeps what the response held
HttpCurrentExpression ==
  /\ SetStore(CurrentExpressionStore(Store))
  /\ ev' = Answer(Ev("read", Outcome(CurrentExpressionResponse(Store).ok),
                     CurrentExpressionResponse(Store).batchExpressions.batchId, FALSE),
                  IF CurrentExpressionResponse(Store).ok THEN "json" ELSE "error", 0, 0)
  /\ UNCHANGED <<startup, mcpVars, idsIssued, inflight, playerVars>>

----------------------------------------------------------------------------
(* Startup: index.ts 311-353 and 584, startMcpServer (mcp-server.ts 56-64) *)

MaxCatalog == 3    \* most entries of an expressions.json

\* names an expressions.json may list
FileNames == {"joyful", "perplexed", "sleepy", "smug"}

\* the names of a list of expressions
Names(exps) == {exps[i] : i \in DOMAIN exps}

\* expressions.json: unreadable, or a list of entries with different names
ExpressionFiles ==
  {[readable |-> FALSE, entries |-> <<>>]}
  \cup {[readable |-> TRUE, entries |-> es] :
          es \in {e \in UNION {[1..n -> FileNames] : n \in 1..MaxCatalog} :
                    \A i, j \in DOMAIN e : e[i] = e[j] => i = j}}

\* expressionMap[name] is truthy, for the map built from the expressions loaded
LoadedMapHas(exps, name) == name \in Names(exps) \cup InheritedNames

\* the module has run down to line 312: the state variables hold their literals
StartInit ==
  /\ currentExpression = "joyful"
  /\ avatarState = DefaultAvatarState
  /\ batchExpressionsState = NoBatch
  /\ mcpCurrentExpression = "joyful"
  /\ mcpAvatarState = DefaultAvatarState
  /\ idsIssued = 0
  /\ inflight = <<>>
  /\ currentBatch = NoBatch
  /\ currentBatchId = 0
  /\ currentActionIndex = 0
  /\ batchTimeout = 0
  /\ timers = {}
  /\ displayed = BlankDisplay
  /\ shownFor = 0
  /\ awaiting = 0
  /\ lastStopped = 0
  /\ startup \in {[file |-> f, expressions |-> <<>>, stage |-> "module"] :
                   f \in ExpressionFiles}
  /\ ev = Ev("init", "ok", 0, FALSE)

\* index.ts 314-353: expressions.json is read (the one-entry fallback if that fails),
\* expressionMap is built, avatarState and batchExpressionsState get their literals
LoadExpressions ==
  /\ startup.stage = "module"
  /\ startup' = [startup EXCEPT
                   !.expressions = IF startup.file.readable THEN startup.file.entries
                                   ELSE <<"joyful">>,
                   !.stage = "loaded"]
  /\ avatarState' = DefaultAvatarState
  /\ batchExpressionsState' = NoBatch
  /\ ev' = Ev("load", Outcome(startup.file.readable), 0, FALSE)
  /\ UNCHANGED <<currentExpression, mcpVars, idsIssued, inflight, playerVars>>

\* startMcpServer, line 64: the module's copy of the name; the callbacks are not called
StartMcpServer ==
  /\ startup.stage = "loaded"
  /\ startup' = [startup EXCEPT !.stage = "serving"]
  /\ mcpCurrentExpression' = IF "joyful" \in Names(startup.expressions) THEN "joyful"
                             ELSE startup.expressions[1]
  /\ ev' = Ev("startMcp", "ok", 0, FALSE)
  /\ UNCHANGED <<storeVars, mcpAvatarState, idsIssued, inflight, playerVars>>

\* GET /api/current-expression against the map that was loaded
StartupRead ==
  /\ startup.stage = "serving"
  /\ ev' = Asking(Answer(Ev("read",
                            Outcome(LoadedMapHas(startup.expressions, currentExpression)),
                            0, FALSE),
                         IF LoadedMapHas(startup.expressions, currentExpression)
                         THEN "json" ELSE "error", 0, 0),
                  currentExpression)
  /\ UNCHANGED <<startup, storeVars, mcpVars, idsIssued, inflight, playerVars>>

StartNext ==
  \/ LoadExpressions
  \/ StartMcpServer
  \/ StartupRead

StartSpec == StartInit /\ [][StartNext]_vars

----------------------------------------------------------------------------
(* POST /api/set-batch-expressions.  The standalone tool server                *)
(* (packages/mcp-server/src/mcp-server.ts, line 305) posts { loop, random,     *)
(* actions } to it and reads actionCount from the answer; the endpoint itself  *)
(* belongs to the server package, whose source is not at hand, and is written  *)
(* here from spec.md 4.2 (setBatch) and 6: it hands the descriptor, without a  *)
(* batchId, to the store's update and answers { success, batchId, actionCount }*)
(* or the error NoValidActions.                                                *)

MaxPosted == 3     \* longest action list posted to the endpoint

\* an action of the posted body, its optional fields defaulted and clamped
PostedAction(a) ==
  [expression |-> a.expression, duration |-> a.duration,
   direction |-> IF a.direction \in {Some("left"), Some("right")}
                 THEN Val(a.direction) ELSE "right",
   posX |-> IF IsGiven(a.posX) THEN Val(a.posX) ELSE 0,
   posY |-> IF IsGiven(a.posY) THEN Val(a.posY) ELSE 0,
   rotation |-> IF IsGiven(a.rotation) THEN LimitRotation(Val(a.rotation)) ELSE 0,
   scale |-> IF IsGiven(a.scale) THEN LimitScale(Val(a.scale)) ELSE ScaleOne]

PostedDescriptor(c) ==
  [loop |-> c.loop,
   random |-> IF IsGiven(c.random) THEN Val(c.random) ELSE FALSE,
   actions |-> [i \in DOMAIN c.actions |-> PostedAction(c.actions[i])],
   batchId |-> 0]

\* the actions of the body that name a catalog expression
PostedValid(c) == SelectSeq(c.actions, LAMBDA a : ExpressionMapHas(a.expression))

PostedOutcome(c) ==
  IF PostedValid(c) = <<>> THEN "rejected"
  ELSE IF Len(PostedValid(c)) = 1 /\ ~c.loop THEN "okSingle" ELSE "ok"

PostedCalls ==
  {[loop |-> l, random |-> Undefined, actions |-> as] :
     l \in BOOLEAN, as \in UNION {[1..n -> RawActions] : n \in 1..MaxPosted}}

HttpSetBatchExpressions(c) ==
  /\ idsIssued < MaxBatches
  /\ SetStore(HandleBatchExpressionsUpdate(Store, PostedDescriptor(c), NewBatchId))
  /\ idsIssued' = IF PostedValid(c) = <<>> THEN idsIssued ELSE idsIssued + 1
  /\ ev' = Called(Answer(Ev("httpBatch", PostedOutcome(c),
                            batchExpressionsState.batchId, FALSE),
                         IF PostedValid(c) = <<>> THEN "error" ELSE "json",
                         Len(c.actions), Len(PostedValid(c))), c)
  /\ UNCHANGED <<startup, mcpVars, inflight, playerVars>>

----------------------------------------------------------------------------
(* Spec: the page polling a store that a few calls change *)

PageQueries == {q \in HttpQueries : q.name = Some("perplexed") /\ IsGiven(q.scale)}

PageToolArgs == {NoArgs("joyful")}

\* frames alternate between the first two raw actions
Alternating(n) ==
  [i \in 1..n |-> IF i % 2 = 1 THEN RawAction("joyful", 1, Undefined, Undefined)
                  ELSE RawAction("perplexed", 2, Some("left"), Some(45))]

\* random is read only when a looping batch wraps
PageBatchCalls ==
  {c \in BatchCalls : c.actions = Alternating(Len(c.actions)) /\ (IsGiven(c.random) => c.loop)}

Next ==
  \/ \E q \in PageQueries : HttpSetExpression(q)
  \/ \E a \in PageToolArgs : RpcSetAvatarExpression(a)
  \/ \E c \in PageBatchCalls : RpcSetBatchExpressions(c)
  \/ PollRequest
  \/ \E i \in DOMAIN inflight : PollDeliver(i)
  \/ Tick
  \/ \E t \in timers : TimerFire(t)

Spec == Init /\ [][Next]_vars

----------------------------------------------------------------------------
(* StoreSpec: every entry point of the store, with the wider inputs *)

\* calls with an action whose duration is 0 or negative
UntimedCalls ==
  {[loop |-> l, random |-> Undefined, actions |-> as] :
     l \in BOOLEAN,
     as \in {<<RawAction("joyful", 0, Undefined, Undefined)>>,
             <<RawAction("joyful", 1, Undefined, Undefined),
               RawAction("perplexed", -1, Some("left"), Some(45))>>}}

\* the store never reads random: calls that leave it out
StoreBatchCalls == {c \in BatchCalls : ~IsGiven(c.random)} \cup UntimedCalls

StoreNext ==
  \/ \E q \in HttpQueries : HttpSetExpression(q)
  \/ \E a \in ToolArgs : RpcSetAvatarExpression(a)
  \/ \E a \in ToolArgs : LegacySetAvatarExpression(a)
  \/ \E c \in StoreBatchCalls : RpcSetBatchExpressions(c)
  \/ \E c \in StoreBatchCalls : LegacySetBatchExpressions(c)
  \/ RpcListAvatarExpressions
  \/ HttpCurrentExpression

StoreSpec == Init /\ [][StoreNext]_vars

----------------------------------------------------------------------------
(* BatchSpec: set-batch through the endpoint and through the two tool functions, *)
(* over a state that set-expression calls and earlier batches have changed       *)

BatchNext ==
  \/ \E c \in PostedCalls : HttpSetBatchExpressions(c)
  \/ \E c \in StoreBatchCalls : RpcSetBatchExpressions(c)
  \/ \E c \in StoreBatchCalls : LegacySetBatchExpressions(c)
  \/ \E q \in PageQueries : HttpSetExpression(q)
  \/ HttpCurrentExpression

BatchSpec == Init /\ [][BatchNext]_vars

----------------------------------------------------------------------------
(* PlayerSpec: the page over polls that may fail and batches with a frame whose *)
(* name is no catalog entry                                                      *)

\* a first frame from the catalog, then a frame named by an inherited key
FrameBatchCalls ==
  {c \in StoreBatchCalls :
     c.actions = <<RawAction("joyful", 1, Undefined, Undefined),
                   RawAction("constructor", 1, Undefined, Undefined)>>}

PlayerNext ==
  \/ \E c \in FrameBatchCalls : RpcSetBatchExpressions(c)
  \/ \E a \in PageToolArgs : RpcSetAvatarExpression(a)
  \/ PollRequest
  \/ FetchFails
  \/ \E i \in DOMAIN inflight : PollDeliver(i)
  \/ Tick
  \/ \E t \in timers : TimerFire(t)

PlayerSpec == Init /\ [][PlayerNext]_vars

\* a page that shows two-frame batches, stopped or looping, and plain expressions
ConvergeBatchCalls ==
  {c \in PageBatchCalls : Len(c.actions) = 2 /\ ~IsGiven(c.random)}

ConvergeNext ==
  \/ \E c \in ConvergeBatchCalls : RpcSetBatchExpressions(c)
  \/ \E a \in PageToolArgs : RpcSetAvatarExpression(a)
  \/ PollRequest
  \/ \E i \in DOMAIN inflight : PollDeliver(i)
  \/ Tick
  \/ \E t \in timers : TimerFire(t)

\* the browser at work: setInterval keeps polling, every response arrives, time
\* passes and due timers fire; nothing makes the callers of the store call
Fairness ==
  /\ WF_vars(PollRequest)
  /\ \A i \in 1..MaxInflight : WF_vars(i \in DOMAIN inflight /\ PollDeliver(i))
  /\ WF_vars(Tick)
  /\ WF_vars(\E t \in timers : TimerFire(t))

ConvergeSpec == Init /\ [][ConvergeNext]_vars /\ Fairness

----------------------------------------------------------------------------
(* Properties of the store, checked under StoreSpec *)

SetExpressionOps == {"httpSet", "rpcSet", "legacySet"}
SetBatchOps      == {"rpcBatch", "legacyBatch"}

\* C2: a successful set-expression call, through GET /api/set-expression, the
\* setAvatarExpression tool or the legacy tool function, leaves no batch stored.
C2_SetExpressionClearsBatch ==
  (ev.op \in SetExpressionOps /\ ev.effect = "ok") => ~IsBatch(batchExpressionsState)

\* C8: the store never holds a batch of exactly one action with loop = false, a read
\* never returns one, and an accepted set-batch call of that shape leaves no batch
\* stored, its action being the current expression.
C8_NoSingleShotBatch ==
  /\ ~(Len(batchExpressionsState.actions) = 1 /\ ~batchExpressionsState.loop)
  /\ LET view == CurrentExpressionResponse(Store).batchExpressions
     IN  ~(Len(view.actions) = 1 /\ ~view.loop)
  /\ (ev.op \in SetBatchOps /\ ev.effect = "okSingle")
       => (~IsBatch(batchExpressionsState) /\ ExpressionMapHas(currentExpression))

\* C8 witness: a one-action loop = false call was accepted and applied as the plain
\* expression "perplexed", facing left
C8_Witness ==
  /\ ev.op \in SetBatchOps /\ ev.effect = "okSingle"
  /\ currentExpression = "perplexed" /\ avatarState.direction = "left"
  /\ ~IsBatch(batchExpressionsState)

\* C9: every accepted set-batch call that is not collapsed leaves a stored batchId
\* different from the one stored before it; no read and no rejected call changes the
\* stored batch; the stored batchId takes a new value only in such an accepted call.
C9_BatchIdChangesWithInstall ==
  [][ /\ (ev'.op \in SetBatchOps /\ ev'.effect = "ok")
           => /\ IsBatch(batchExpressionsState')
              /\ batchExpressionsState'.batchId /= batchExpressionsState.batchId
      /\ (ev'.op = "read" \/ ev'.effect = "rejected")
           => batchExpressionsState' = batchExpressionsState
      /\ (IsBatch(batchExpressionsState')
            /\ batchExpressionsState'.batchId /= batchExpressionsState.batchId)
           => (ev'.op \in SetBatchOps /\ ev'.effect = "ok") ]_vars

\* C9 witness: an accepted set-batch call has replaced the stored batch 1 by batch 2
C9_Witness ==
  /\ ev.op \in SetBatchOps /\ ev.effect = "ok" /\ ev.id = 1
  /\ batchExpressionsState.batchId = 2

\* C10: a read leaves the store as it was and returns the stored batchId, so reads that
\* follow one another with no call in between return the same batchId.
C10_ReadIsPure ==
  [][ ev'.op = "read"
        => /\ UNCHANGED storeVars
           /\ ev'.id = batchExpressionsState.batchId
           /\ (ev.op = "read" => ev'.id = ev.id) ]_vars

\* C10 witness: a read has returned the id of the stored batch
C10_Witness ==
  /\ ev.op = "read" /\ ev.id /= 0
  /\ batchExpressionsState.batchId = ev.id

----------------------------------------------------------------------------
(* Properties of the player, checked under Spec *)

\* what the page shows while action a of a stored batch is displayed
Frame(a) ==
  [name |-> a.expression, imageUrl |-> ImageUrl(a.expression), direction |-> a.direction,
   posX |-> a.posX, posY |-> a.posY, rotation |-> a.rotation, scale |-> a.scale]

\* the step delivers response i of the polls in flight
Delivers(i) == ev'.op = "deliver" /\ inflight' = Without(inflight, i)

playerState == <<currentBatch, currentBatchId, currentActionIndex, batchTimeout,
                 timers, displayed, shownFor>>

\* C1: once the timer of the last frame of a loop = false batch has expired, a poll
\* response that carries this same batch, the store still holding it, neither
\* restarts the batch nor renders anything: the player stays as it stopped.
C1_EndedBatchStaysEnded ==
  [][ \A i \in DOMAIN inflight :
        ( /\ awaiting /= 0
          /\ batchExpressionsState.batchId = awaiting
          /\ Delivers(i)
          /\ inflight[i].ok
          /\ inflight[i].batchExpressions.batchId = awaiting )
        => UNCHANGED playerState ]_vars

\* C3: while a loop = true, random = false batch runs, each timer expiry moves to the
\* next action in the stored order, wrapping from the last to the first; the frame
\* that ends was held for its own duration, the next one is shown and its timer armed
\* for its duration, and the tracked batch and batchId stay the same; a poll response
\* carrying the same batchId leaves both the same too.
C3_LoopKeepsOrder ==
  [][ /\ (ev'.op = "timer" /\ currentBatch.loop /\ ~currentBatch.random)
           => LET n    == Len(currentBatch.actions)
                  next == (currentActionIndex + 1) % n
                  a    == currentBatch.actions[next + 1]
              IN  /\ shownFor = currentBatch.actions[currentActionIndex + 1].duration
                  /\ currentActionIndex' = next
                  /\ displayed' = Frame(a)
                  /\ shownFor' = 0
                  /\ timers' = {[handle |-> batchTimeout', delay |-> a.duration,
                                 batch |-> currentBatchId]}
                  /\ currentBatch' = currentBatch
                  /\ currentBatchId' = currentBatchId
                  /\ batchExpressionsState.batchId = currentBatchId
                       => currentBatch.actions = batchExpressionsState.actions
      /\ \A i \in DOMAIN inflight :
           ( /\ Delivers(i) /\ inflight[i].ok
             /\ currentBatch.loop /\ ~currentBatch.random
             /\ inflight[i].batchExpressions.batchId = currentBatchId )
           => UNCHANGED <<currentBatch, currentBatchId, currentActionIndex>> ]_vars

\* C3 witness: the second frame of a two-action loop = true, random = false batch has
\* expired and the run is back on its first action
C3_Witness ==
  /\ ev.op = "timer" /\ ev.effect = "wrap"
  /\ currentBatch.loop /\ ~currentBatch.random
  /\ Len(currentBatch.actions) = 2
  /\ currentActionIndex = 0
  /\ displayed = Frame(currentBatch.actions[1])

\* C4: at most one frame timer is pending, it is the one batchTimeout names, and it
\* belongs to the batch the player tracks: no timer of a superseded batch is left to fire.
C4_OneTimer ==
  /\ Cardinality(timers) <= 1
  /\ \A t \in timers :
       /\ t.handle = batchTimeout
       /\ currentBatchId /= 0
       /\ t.batch = currentBatchId

\* C4 witness: a poll response started a batch while the timer of another batch was
\* pending; that timer is gone and one timer is pending
C4_Witness ==
  /\ ev.op = "deliver" /\ ev.effect = "start" /\ ev.cancelled
  /\ Cardinality(timers) = 1

\* C5: a poll response whose batch has a batchId other than the tracked one (or when none
\* is tracked) restarts the player: the pending timer is cancelled, the new batch and
\* its id are tracked, the index is 0, action 0 is shown and a timer is armed for its
\* duration.
C5_NewIdRestarts ==
  [][ \A i \in DOMAIN inflight :
        ( /\ Delivers(i) /\ inflight[i].ok
          /\ IsBatch(inflight[i].batchExpressions)
          /\ inflight[i].batchExpressions.batchId /= currentBatchId )
        => LET b == inflight[i].batchExpressions
           IN  /\ currentBatch' = b
               /\ currentBatchId' = b.batchId
               /\ currentActionIndex' = 0
               /\ displayed' = Frame(b.actions[1])
               /\ shownFor' = 0
               /\ timers' = {[handle |-> batchTimeout', delay |-> b.actions[1].duration,
                              batch |-> b.batchId]}
               /\ timers' \cap timers = {} ]_vars

\* C5 witness: while the timer of another batch was pending, a response carrying
\* batch 2 restarted the player on action 0 of batch 2
C5_Witness ==
  /\ ev.op = "deliver" /\ ev.effect = "start" /\ ev.cancelled
  /\ currentBatchId = 2 /\ currentActionIndex = 0
  /\ displayed = Frame(currentBatch.actions[1])
  /\ \E t \in timers : t.batch = 2 /\ t.delay = currentBatch.actions[1].duration

\* C6: a poll response without a batch, arriving while a batch is tracked, cancels the
\* pending timer, clears the tracked batch and id, and shows the view's plain
\* expression; the batch so stopped is not run again afterwards.
C6_StoppedBatchStaysStopped ==
  [][ /\ \A i \in DOMAIN inflight :
           ( /\ Delivers(i) /\ inflight[i].ok
             /\ ~IsBatch(inflight[i].batchExpressions)
             /\ currentBatchId /= 0 )
           => /\ timers' = {} /\ batchTimeout' = 0
              /\ currentBatch' = NoBatch /\ currentBatchId' = 0
              /\ displayed'.name = inflight[i].name
              /\ displayed'.imageUrl = inflight[i].imageUrl
              /\ displayed'.direction = inflight[i].direction
      /\ lastStopped /= 0 => currentBatchId' /= lastStopped ]_vars

\* C7: a poll response whose batch has the tracked batchId changes nothing in the
\* player: index, order, timer and display stay; within one batch the index and the
\* display change only when a timer expires.
C7_SameIdIsNoOp ==
  [][ /\ \A i \in DOMAIN inflight :
           ( /\ Delivers(i) /\ inflight[i].ok
             /\ IsBatch(inflight[i].batchExpressions)
             /\ inflight[i].batchExpressions.batchId = currentBatchId )
           => UNCHANGED playerState
      /\ ( /\ currentBatchId /= 0 /\ currentBatchId' = currentBatchId
           /\ <<currentActionIndex, displayed>>' /= <<currentActionIndex, displayed>> )
           => ev'.op = "timer" ]_vars

\* C7 witness: a response carrying the tracked batch arrived while the second frame was
\* on display, its timer part-way through
C7_Witness ==
  /\ ev.op = "deliver" /\ ev.effect = "same"
  /\ currentActionIndex = 1
  /\ \E t \in timers : t.delay < currentBatch.actions[2].duration /\ t.delay > 0

----------------------------------------------------------------------------
(* Properties of set-expression, checked under StoreSpec *)

\* the visual fields a call leaves alone: given(f) says whether the call supplies field f
FieldsKept(given) ==
  \A f \in {"direction", "posX", "posY", "rotation", "scale"} :
    ~given[f] => avatarState'[f] = avatarState[f]

ToolGiven(a) ==
  [f \in {"direction", "posX", "posY", "rotation", "scale"} |-> IsGiven(a[f])]

QueryGiven(q) ==
  [direction |-> IsGiven(q.direction), posX |-> IsGiven(q.pos_x),
   posY |-> IsGiven(q.pos_y), rotation |-> IsGiven(q.rotation),
   scale |-> IsGiven(q.scale)]

\* C11: a successful set-expression call, through the HTTP endpoint, the
\* setAvatarExpression tool or the legacy tool function, sets the name and leaves every
\* visual field the call does not supply at the value the store held before the call.
C11_UnsuppliedFieldsKept ==
  [][ /\ \A q \in HttpQueries :
           (HttpSetExpression(q) /\ ev'.effect = "ok")
             => (currentExpression' = Val(q.name) /\ FieldsKept(QueryGiven(q)))
      /\ \A a \in ToolArgs :
           ((RpcSetAvatarExpression(a) \/ LegacySetAvatarExpression(a)) /\ ev'.effect = "ok")
             => (currentExpression' = a.name /\ FieldsKept(ToolGiven(a))) ]_vars

\* C12: the rotation the store holds and serves lies in [-30, 30] and the scale in
\* [0.1, 3.0], in the single-expression state and in every action of a stored batch,
\* whatever values the calls were given.
C12_ServedInRange ==
  LET InRange(r, sc) == /\ r \in RotationMin..RotationMax
                        /\ sc \in ScaleMin..ScaleMax
      view == CurrentExpressionResponse(Store)
  IN  /\ InRange(avatarState.rotation, avatarState.scale)
      /\ view.ok => InRange(view.rotation, view.scale)
      /\ \A i \in DOMAIN batchExpressionsState.actions :
           InRange(batchExpressionsState.actions[i].rotation,
                   batchExpressionsState.actions[i].scale)

----------------------------------------------------------------------------
(* Properties of set-batch *)

Known(a) == a.expression \in Catalog

\* the call a posted set-batch step has just made
TheCall == ev'.call[1]

\* C13: a set-batch call handed to the store with some, but not all, unknown names is
\* accepted: the answer reports success with the number of valid actions, and the
\* stored descriptor holds exactly the valid actions, in their order (when a single
\* valid action remains and loop = false, that action becomes the plain expression).
C13_PartialBatchFiltered ==
  [][ (ev'.op = "httpBatch" /\ 0 < ev'.known /\ ev'.known < ev'.sent)
        => LET valid == SelectSeq(TheCall.actions, Known)
           IN  /\ ev'.reply = "json"
               /\ ev'.count = Len(valid) /\ ev'.count < ev'.sent
               /\ IF Len(valid) = 1 /\ ~TheCall.loop
                  THEN /\ ~IsBatch(batchExpressionsState')
                       /\ currentExpression' = valid[1].expression
                  ELSE /\ IsBatch(batchExpressionsState')
                       /\ batchExpressionsState'.loop = TheCall.loop
                       /\ Len(batchExpressionsState'.actions) = Len(valid)
                       /\ \A i \in DOMAIN valid :
                            /\ batchExpressionsState'.actions[i].expression
                                 = valid[i].expression
                            /\ batchExpressionsState'.actions[i].duration
                                 = valid[i].duration ]_vars

\* C14: a set-batch call in which no action names a catalog expression is rejected and
\* leaves the current expression, the visual state and the stored batch, batchId
\* included, as they were.
C14_NoValidActionsRejected ==
  [][ (ev'.op \in {"httpBatch", "rpcBatch", "legacyBatch"} /\ ev'.known = 0)
        => /\ UNCHANGED storeVars
           /\ ev'.effect = "rejected"
           /\ ev'.op = "httpBatch" => ev'.reply = "error" ]_vars

\* C15: through the setBatchExpressions tool and the legacy tool function, a call with
\* any unknown expression name is rejected as a whole: the store, and the tool
\* module's copy, stay as they were and no batch id is used.
C15_ToolRejectsWhole ==
  [][ (ev'.op \in {"rpcBatch", "legacyBatch"} /\ ev'.known < ev'.sent)
        => /\ UNCHANGED <<storeVars, mcpVars, idsIssued>>
           /\ ev'.effect = "rejected" /\ ev'.count = 0 ]_vars

\* C16: a set-expression call whose name is not in the catalog fails with an error
\* (GET /api/set-expression answers with the error body, the setAvatarExpression tool
\* with an explanatory text) and leaves current expression, visual state and stored
\* batch as they were.
C16_UnknownNameRejected ==
  [][ (ev'.op \in {"httpSet", "rpcSet"} /\ ev'.name \notin Catalog)
        => /\ UNCHANGED storeVars
           /\ ev'.effect = "rejected"
           /\ ev'.reply = IF ev'.op = "httpSet" THEN "error" ELSE "text" ]_vars

----------------------------------------------------------------------------
(* Properties of the random loop, checked under Spec *)

\* how often an expression name occurs among actions
Occurrences(actions, name) ==
  Cardinality({i \in DOMAIN actions : actions[i].expression = name})

SameNames(as, bs) ==
  /\ Len(as) = Len(bs)
  /\ \A i \in DOMAIN as : Occurrences(as, as[i].expression) = Occurrences(bs, as[i].expression)

\* C17: while a loop = true, random = true batch runs, every timer expiry shows the
\* action at the next index of the order in use, a cycle running through the indexes
\* 0 .. n-1, and the reshuffle at the wrap only permutes: the order in use after it
\* has each expression name as often as the order before it, and as often as the
\* batch the store holds under the same batchId.  So each full cycle displays the
\* multiset of the batch's action names.
C17_ShuffleOnlyPermutes ==
  [][ (ev'.op = "timer" /\ currentBatch.loop /\ currentBatch.random)
        => LET n == Len(currentBatch.actions)
           IN  /\ currentBatchId' = currentBatchId
               /\ SameNames(currentBatch'.actions, currentBatch.actions)
               /\ currentActionIndex' = (currentActionIndex + 1) % n
               /\ displayed'.name = currentBatch'.actions[currentActionIndex' + 1].expression
               /\ batchExpressionsState.batchId = currentBatchId
                    => SameNames(currentBatch'.actions, batchExpressionsState.actions) ]_vars

\* C17 witness: a random loop has wrapped and the reshuffle drew an order other than
\* the stored one; the first action of the new order is on display
C17_Witness ==
  /\ ev.op = "timer" /\ ev.effect = "wrap"
  /\ currentBatch.loop /\ currentBatch.random
  /\ batchExpressionsState.batchId = currentBatchId
  /\ currentBatch.actions /= batchExpressionsState.actions
  /\ currentActionIndex = 0
  /\ displayed.name = currentBatch.actions[1].expression
  /\ displayed.name = batchExpressionsState.actions[2].expression

----------------------------------------------------------------------------
(* The two entry points of set-expression compared, checked under StoreSpec *)

\* a query string and tool arguments that say the same
SameArguments(q, a) ==
  /\ q.name = Some(a.name)
  /\ q.direction = a.direction
  /\ IsGiven(q.pos_x) = IsGiven(a.posX)
  /\ IsGiven(q.pos_x) => ParseInt(Val(q.pos_x)) = Val(a.posX)
  /\ IsGiven(q.pos_y) = IsGiven(a.posY)
  /\ IsGiven(q.pos_y) => ParseInt(Val(q.pos_y)) = Val(a.posY)
  /\ IsGiven(q.rotation) = IsGiven(a.rotation)
  /\ IsGiven(q.rotation) => ParseInt(Val(q.rotation)) = Val(a.rotation)
  /\ IsGiven(q.scale) = IsGiven(a.scale)
  /\ IsGiven(q.scale) => ParseFloat(Val(q.scale)) = Val(a.scale)

\* C18: from every reachable store state, GET /api/set-expression and the
\* setAvatarExpression tool, given the same arguments, leave the same store state:
\* current expression, visual state and stored batch.
C18_HttpRpcSameResult ==
  \A q \in HttpQueries : \A a \in ToolArgs :
    SameArguments(q, a)
      => HttpSetExpressionUpdate(Store, q)
           = RpcSetAvatarExpressionUpdate(Store, mcpAvatarState, a)

\* what GET /api/current-expression answers right after the step
ReadAfter ==
  CurrentExpressionResponse([currentExpression |-> currentExpression',
                             avatarState |-> avatarState',
                             batchExpressionsState |-> batchExpressionsState'])

\* C19: for every catalog name and from every reachable store state, a set-expression
\* call with that name, through GET /api/set-expression, the setAvatarExpression tool
\* or the legacy tool function, succeeds, and a GET /api/current-expression made right
\* after it answers with that name.
C19_ReadReturnsNameSet ==
  [][ (ev'.op \in {"httpSet", "rpcSet", "legacySet"} /\ ev'.name \in Catalog)
        => (ev'.effect = "ok" /\ ReadAfter.ok /\ ReadAfter.name = ev'.name) ]_vars

\* C19 witness: GET /api/set-expression has just set "perplexed" while a batch that
\* starts with "joyful" is stored, and the read answers "perplexed"
C19_Witness ==
  /\ ev.op = "httpSet" /\ ev.effect = "ok"
  /\ currentExpression = "perplexed"
  /\ IsBatch(batchExpressionsState)
  /\ batchExpressionsState.actions[1].expression = "joyful"
  /\ CurrentExpressionResponse(Store).name = "perplexed"

----------------------------------------------------------------------------
(* How the tool handlers end, checked under StoreSpec *)

\* C20: every call of a tool handler (setAvatarExpression, listAvatarExpressions,
\* setBatchExpressions) ends in a tool response carrying text; on a failure, an unknown
\* name in a batch action included, the handler returns an explanatory text and no
\* exception leaves it.
C20_ToolsAnswerWithText ==
  (ev.op \in {"rpcSet", "rpcList", "rpcBatch"} /\ ev.reply /= "invalid")
    => ev.reply = "text"

----------------------------------------------------------------------------
(* Startup, checked under StartSpec *)

\* the catalog's "joyful" entry if it has one, else its first entry
PreferredExpression(exps) == IF "joyful" \in Names(exps) THEN "joyful" ELSE exps[1]

\* C21: once startup is over, and before any call, the store's current expression is
\* the catalog's "joyful" entry if the catalog has one and otherwise the catalog's first
\* entry, the visual state is right / 0 / 0 / 0 / 1.0 and no batch is stored.
C21_StartsOnCatalogEntry ==
  startup.stage = "serving"
    => /\ currentExpression = PreferredExpression(startup.expressions)
       /\ avatarState = DefaultAvatarState
       /\ batchExpressionsState = NoBatch

----------------------------------------------------------------------------
(* Frames that do not resolve and polls that fail, checked under PlayerSpec *)

\* the action the player is on
CurrentFrame == currentBatch.actions[currentActionIndex + 1]

\* C22: a batch frame whose expression name is no catalog entry is skipped as if its
\* duration were 0: it is never on display with its timer still running.
C22_UnresolvableFrameSkipped ==
  ( /\ IsBatch(currentBatch)
    /\ currentActionIndex + 1 \in DOMAIN currentBatch.actions
    /\ CurrentFrame.expression \notin Catalog )
  => /\ displayed.name /= CurrentFrame.expression
     /\ \A t \in timers : t.delay = 0

\* C23: a poll that fails is caught: when its outcome reaches the page, the tracked
\* batch, the frame index, the pending timer and the displayed frame stay as they
\* are, and the page can poll again.
C23_FailedPollChangesNothing ==
  [][ (ev'.op = "deliver" /\ ev'.effect = "fail")
        => /\ UNCHANGED playerState
           /\ Len(inflight') < MaxInflight ]_vars

\* C23 witness: a poll failed while the second frame of a batch was on display with
\* its timer pending; frame and timer are still there
C23_Witness ==
  /\ ev.op = "deliver" /\ ev.effect = "fail"
  /\ IsBatch(currentBatch) /\ currentActionIndex = 1
  /\ displayed.name = CurrentFrame.expression
  /\ \E t \in timers : t.handle = batchTimeout /\ t.batch = currentBatchId

----------------------------------------------------------------------------
(* What an accepted set-batch call leaves in the store, checked under StoreSpec *)

\* the visual fields of an action as sent, omitted ones at their defaults, rotation
\* and scale within their limits
Defaulted(a) ==
  [direction |-> IF IsGiven(a.direction) THEN Val(a.direction) ELSE "right",
   posX |-> IF IsGiven(a.posX) THEN Val(a.posX) ELSE 0,
   posY |-> IF IsGiven(a.posY) THEN Val(a.posY) ELSE 0,
   rotation |-> IF IsGiven(a.rotation)
                THEN (IF Val(a.rotation) > RotationMax THEN RotationMax
                      ELSE IF Val(a.rotation) < RotationMin THEN RotationMin
                      ELSE Val(a.rotation))
                ELSE 0,
   scale |-> IF IsGiven(a.scale)
             THEN (IF Val(a.scale) > ScaleMax THEN ScaleMax
                   ELSE IF Val(a.scale) < ScaleMin THEN ScaleMin ELSE Val(a.scale))
             ELSE ScaleOne]

\* C24: after a set-batch call a tool function accepted, the store's current
\* expression is the first action's and its visual state is that action's fields,
\* omitted ones at their defaults, whatever the visual state was before; so it is when
\* the batch is stored and when it is collapsed into a plain expression.
C24_FirstActionBecomesState ==
  [][ (ev'.op \in {"rpcBatch", "legacyBatch"} /\ ev'.effect \in {"ok", "okSingle"})
        => /\ currentExpression' = ev'.first[1].expression
           /\ avatarState' = Defaulted(ev'.first[1])
           /\ IsBatch(batchExpressionsState') <=> ev'.effect = "ok"
           /\ ev'.effect = "ok"
                => ActionState(batchExpressionsState'.actions[1]) = avatarState' ]_vars

\* C24 witness: the legacy function stored a batch whose first action gives a
\* direction and a rotation beyond the limit and omits position and scale; the store
\* holds that direction, the limit, and the defaults
C24_Witness ==
  /\ ev.op = "legacyBatch" /\ ev.effect = "ok"
  /\ ev.first[1].expression = "perplexed" /\ ev.first[1].rotation = Some(45)
  /\ currentExpression = "perplexed"
  /\ avatarState = [direction |-> "left", posX |-> 0, posY |-> 0,
                    rotation |-> RotationMax, scale |-> ScaleOne]

----------------------------------------------------------------------------
(* The stored batch, checked under BatchSpec and StoreSpec *)

\* C25: the collapse rule applies to what is left after filtering: a loop = false
\* descriptor that arrives with several actions of which exactly one names a catalog
\* expression is not stored as a batch; that action becomes the plain expression and
\* a batch stored before is cleared.
C25_CollapseAfterFilter ==
  [][ (ev'.op = "httpBatch" /\ ~TheCall.loop /\ ev'.sent > 1 /\ ev'.known = 1)
        => LET valid == SelectSeq(TheCall.actions, Known)
           IN  /\ ~IsBatch(batchExpressionsState')
               /\ currentExpression' = valid[1].expression
               /\ avatarState' = Defaulted(valid[1]) ]_vars

\* C26: a stored batch has at least one action and every action names a catalog
\* expression.
C26_StoredBatchNamesCatalog ==
  IsBatch(batchExpressionsState)
    => /\ Len(batchExpressionsState.actions) >= 1
       /\ \A i \in DOMAIN batchExpressionsState.actions :
            batchExpressionsState.actions[i].expression \in Catalog

\* C27: while a batch is stored, the current view's expression name and visual state
\* are those of action 0 of that batch: the store does not advance batch time, and no
\* reader sees a batch together with an expression or visual state that is not its.
C27_ViewShowsFirstFrame ==
  IsBatch(batchExpressionsState)
    => LET view  == CurrentExpressionResponse(Store)
           first == batchExpressionsState.actions[1]
       IN  /\ view.ok
           /\ view.batchExpressions = batchExpressionsState
           /\ view.name = first.expression
           /\ view.direction = first.direction
           /\ view.posX = first.posX /\ view.posY = first.posY
           /\ view.rotation = first.rotation /\ view.scale = first.scale

----------------------------------------------------------------------------
(* The order of poll responses, checked under Spec *)

\* C30: poll responses take effect in the order of the store states they report.
\* Batch ids count the installs, so a response that carries a lower batch id than the
\* one the player tracks reports a store state older than the view already applied,
\* and a batch the store has superseded: its delivery must not restart that batch.
C30_NoLateRestart ==
  [][ (ev'.op = "deliver" /\ currentBatchId /= 0 /\ currentBatchId' /= 0)
        => currentBatchId' >= currentBatchId ]_vars

----------------------------------------------------------------------------
(* Convergence of the page, checked under ConvergeSpec *)

\* the steps that call the store
CallOps == {"httpSet", "rpcSet", "legacySet", "rpcBatch", "legacyBatch", "httpBatch"}

\* the player agrees with the store
Agrees ==
  IF IsBatch(batchExpressionsState)
  THEN currentBatchId = batchExpressionsState.batchId
  ELSE /\ currentBatchId = 0
       /\ timers = {}
       /\ displayed.name = currentExpression
       /\ displayed.direction = avatarState.direction
       /\ displayed.posX = avatarState.posX /\ displayed.posY = avatarState.posY
       /\ displayed.rotation = avatarState.rotation
       /\ displayed.scale = avatarState.scale

\* C29: if from some point on no call reaches the store, while polls go on and are
\* answered, the player eventually agrees with the store and stays in agreement.
C29_EventuallyAgrees ==
  <>[](ev.op \notin CallOps) => <>[]Agrees

----------------------------------------------------------------------------
(* The frame timer and the frame index, checked under Spec *)

\* C31: while the player tracks a batch exactly one frame timer is pending, and while
\* it tracks none no frame timer is pending; so it is after every poll response and
\* every timer expiry, the end of a loop=false batch included.
C31_TimerIffTracking ==
  /\ currentBatchId /= 0 => Cardinality(timers) = 1
  /\ currentBatchId = 0 => timers = {}

\* C31 witness: the last frame of a loop=false batch has just ended
C31_Witness ==
  /\ ev.op = "timer" /\ ev.effect = "end"
  /\ currentBatchId = 0
  /\ timers = {}

\* C32: while the player tracks a batch, its frame index is at least 0 and less than
\* the number of actions of its local batch, after every poll response, timer expiry
\* and reshuffle: the action it reads is always one of the list.
C32_IndexInRange ==
  currentBatchId /= 0
    => /\ IsBatch(currentBatch)
       /\ currentActionIndex >= 0
       /\ currentActionIndex < Len(currentBatch.actions)

\* C32 witness: a looping random batch of two frames has just wrapped and reshuffled
C32_Witness ==
  /\ ev.op = "timer" /\ ev.effect = "wrap"
  /\ IsBatch(currentBatch) /\ currentBatch.random
  /\ Len(currentBatch.actions) = 2
  /\ currentBatchId /= 0
  /\ currentActionIndex = 0

----------------------------------------------------------------------------
(* The current expression stays resolvable, checked under StoreSpec *)

\* whether GET /api/current-expression answers 200 in this state, and with what name
ViewOk == CurrentExpressionResponse(Store).ok

ViewName == CurrentExpressionResponse(Store).name

\* C33: no set-expression or set-batch call makes the current expression
\* unresolvable: if the store's current expression is a key of the catalog before a
\* step it is one after it, and the current-expression read then finds it.
C33_NameStaysResolvable ==
  [][ (currentExpression \in Catalog)
        => /\ currentExpression' \in Catalog
           /\ ViewOk'
           /\ ViewName' = currentExpression' ]_vars

----------------------------------------------------------------------------
(* The RPC module's copy of the state, checked under StoreSpec *)

\* the store's expression and visual state equal the RPC module's copy
SameCopy ==
  /\ currentExpression = mcpCurrentExpression
  /\ avatarState = mcpAvatarState

\* C34: the RPC module's copy of the current expression and visual state and the
\* store's stay equal: an RPC tool call or an HTTP set-expression call made while they
\* are equal leaves them equal.
C34_StoreEqualsRpcCopy ==
  [][ (SameCopy /\ ev'.op \in {"httpSet", "rpcSet", "rpcBatch"}) => SameCopy' ]_vars

----------------------------------------------------------------------------
(* The batchId the legacy set-batch function reports, checked under StoreSpec *)

\* C35: when the legacy set-batch function reports success with a batchId and the
\* batch is stored, not collapsed, the current-expression read that comes next returns
\* that batchId: the store keeps the id the caller supplied.
C35_ReportedIdIsStored ==
  (ev.op = "legacyBatch" /\ ev.reply = "json" /\ IsBatch(batchExpressionsState))
    => /\ ev.reported /= 0
       /\ CurrentExpressionResponse(Store).ok
       /\ CurrentExpressionResponse(Store).batchExpressions.batchId = ev.reported

\* C35 witness: the legacy function stored a second batch and reported its id, which
\* is not the id of the batch it replaced
C35_Witness ==
  /\ ev.op = "legacyBatch" /\ ev.effect = "ok" /\ ev.reply = "json"
  /\ ev.id /= 0
  /\ ev.reported /= ev.id
  /\ IsBatch(batchExpressionsState)
  /\ batchExpressionsState.batchId = ev.reported

====
